---- MODULE Spec2Model ----
(***************************************************************************)
(* Model of the creditcoin-py client SDK: the credit-marketplace read path *)
(* (get_ask_orders, get_bid_orders, get_credit_deals), the marketplace     *)
(* write path (create_ask_order, create_bid_order, accept_offer,           *)
(* repay_loan), CreditScanClient.transfer and get_balances_bulk, the       *)
(* AccountManager and the amount codec, over an external substrate node    *)
(* and key library whose answers are nondeterministic inputs.              *)
(*                                                                         *)
(* Representation of numbers.  Human-scale decimal amounts (Python floats) *)
(* are integers counting hundredths of a CTC ("cents"), so the fallback    *)
(* fee 0.01 is 1.  Wire integers count model planck; PlanckPerCent stands  *)
(* for 10**18 / 100 and is scaled down to stay inside TLC's integers.      *)
(* Chain values are whole cents, so the float division by 10**18 is exact. *)
(***************************************************************************)
EXTENDS Integers, Sequences, FiniteSets, TLC

VARIABLES
    askOrders,   \* chain storage map Credit.AskOrders, in enumeration order
    bidOrders,   \* chain storage map Credit.BidOrders
    deals,       \* chain storage map Credit.Deals
    sysAccount,  \* chain storage System.Account of the sender
    op,          \* the SDK operation whose result is pending, or "idle"
    arg,         \* the inputs of that operation
    outcome,     \* how it ended: returned a value or raised an exception
    listed,      \* the list a read operation returned
    returned,    \* the value any other operation returned
    receipt,     \* the TransactionReceipt a write operation returned
    locals,      \* transfer's local variables balance and fee_estimate, once set
    calls,       \* the calls made on the substrate interface and the key library, in order
    timeout,     \* the client's request timeout in seconds (self.timeout)
    waited       \* the seconds the pending operation has been blocked on the node

vars ==
    <<askOrders, bidOrders, deals, sysAccount, op, arg, outcome, listed, returned, receipt,
      locals, calls, timeout, waited>>

chainVars == <<askOrders, bidOrders, deals, sysAccount>>

waitVars == <<timeout, waited>>

(***************************************************************************)
(* Bounds of the model.                                                    *)
(***************************************************************************)
MaxEntries == 2

MaxAmount == 2

MaxAddresses == 2

(***************************************************************************)
(* Values.                                                                 *)
(***************************************************************************)
None == "<None>"

Addresses == {"5Alice", "5Bob"}

OrderStatusValues == {"active", "filled", "cancelled", "expired"}

DealStatusValues == {"pending", "completed", "disputed", "cancelled"}

PlanckPerCent == 10

\* Python's int(): truncation toward zero
Trunc(num, den) == IF num >= 0 THEN num \div den ELSE -((-num) \div den)

\* float(raw) / 10**18
FromRaw(raw) == raw \div PlanckPerCent

BasisPointsPerPercent == 100

\* float(raw) / 100: basis points to a percentage (chain rates are whole percents)
FromBasisPoints(bp) == bp \div BasisPointsPerPercent

\* int(rate * 100)
ToBasisPoints(rate) == Trunc(rate * BasisPointsPerPercent, 1)

\* int(amount * 10**18)
ToRaw(amount) == Trunc(amount * PlanckPerCent, 1)

\* Python truthiness of an Optional[str]: None and "" are falsy
TruthyStr(s) == s # None /\ s # ""

\* Python truthiness of an Optional[Enum member]: every member is truthy
TruthyEnum(m) == m # None

\* str(key)
Str(key) == <<"str", key>>

NoOutcome == [kind |-> "none", exc |-> "", msg |-> <<>>]

Return == [kind |-> "return", exc |-> "", msg |-> <<>>]

Raise(e, m) == [kind |-> "raise", exc |-> e, msg |-> m]

NoReceipt == [status |-> "none"]

\* No value returned (yet); a returned value is a pair of its type and the value.
NoValue == <<"none">>

NoArg == [address |-> None, status |-> None]

NoLocals == [known |-> FALSE, balance |-> 0, fee_estimate |-> 0, lookups |-> <<>>]

\* One call on the substrate interface: the method, what it was given, how it ended.
Call(f, d, r) == [fn |-> f, detail |-> d, res |-> r]

\* Mutant: a listing composes a call before it enumerates.
EnumerationCallsComposing(storage, r) ==
    <<Call("compose_call", <<"Credit", storage, <<>>>>, "ok"),
      Call("create_storage_key", <<"Credit", storage>>, "ok"),
      Call("query_map", <<"Credit", storage>>, r)>>

\* The calls of a listing: create_storage_key, then query_map ending as r.
EnumerationCalls(storage, r) ==
    <<Call("create_storage_key", <<"Credit", storage>>, "ok"),
      Call("query_map", <<"Credit", storage>>, r)>>

(***************************************************************************)
(* The raw values the chain's storage maps may hold.  A malformed entry    *)
(* lacks a field the decoder indexes, or carries a status string that is   *)
(* not a value of the enumeration.  The optional fields collateral_amount  *)
(* and repaid_amount are 0 when the entry does not carry them (the decoder *)
(* reads them with value.get(..., 0)).                                     *)
(***************************************************************************)
RawOrder(who, st, miss) ==
    [party |-> who, principal |-> 100 * PlanckPerCent, interest_rate |-> 500,
     duration |-> 90, collateral_required |-> FALSE, expiry |-> 14400,
     status |-> st, created_block |-> 1, missing |-> miss, collateral_amount |-> 0]

RawOrders ==
    {RawOrder(a, s, {}) : a \in Addresses, s \in OrderStatusValues}
        \cup {RawOrder("5Alice", "active", {"party"}), RawOrder("5Alice", "bogus", {})}

RawDeal(l, b, st, miss) ==
    [lender |-> l, borrower |-> b, ask_order_id |-> 1, bid_order_id |-> 1,
     principal |-> 100 * PlanckPerCent, interest_rate |-> 500, duration |-> 90,
     collateral_required |-> FALSE, amount |-> 100 * PlanckPerCent,
     status |-> st, created_block |-> 1, missing |-> miss, collateral_amount |-> 0,
     repaid_amount |-> 0]

RawDeals ==
    {RawDeal(l, b, s, {}) : l \in Addresses, b \in Addresses, s \in {"pending", "completed"}}
        \cup {RawDeal("5Alice", "5Bob", "pending", {"lender"}),
              RawDeal("5Alice", "5Bob", "bogus", {})}

SeqsUpTo(S, n) == UNION {[1..k -> S] : k \in 0..n}

\* What a call on the substrate interface may do besides answering.
RpcFailures == {"SubstrateRequestException", "ConnectionError"}

(***************************************************************************)
(* Read path: decoding one storage entry.                                  *)
(***************************************************************************)
LoanTermsOf(value) ==
    [principal |-> FromRaw(value.principal),
     interest_rate |-> FromBasisPoints(value.interest_rate),
     duration_days |-> value.duration,
     collateral_required |-> value.collateral_required,
     collateral_amount |-> FromRaw(value.collateral_amount)]

\* The exception the decoding of an order entry raises, or None.
OrderDecodeError(value) ==
    IF value.missing # {} THEN "KeyError"
    ELSE IF value.status \notin OrderStatusValues THEN "ValueError"
    ELSE None

DealDecodeError(value) ==
    IF value.missing # {} THEN "KeyError"
    ELSE IF value.status \notin DealStatusValues THEN "ValueError"
    ELSE None

\* CreditAskOrder.from_json / CreditBidOrder.from_json of the order_data dict
OrderFromJson(key, value) ==
    [order_id |-> Str(key), address |-> value.party, terms |-> LoanTermsOf(value),
     expiry_block |-> value.expiry, status |-> value.status,
     created_block |-> value.created_block, filled_amount |-> FromRaw(0)]

\* Mutant: the repaid amount is taken in wire units, the amount in decimal units.
DealFromJsonRepaidUnscaled(key, value) ==
    [deal_id |-> Str(key), ask_order_id |-> Str(value.ask_order_id),
     bid_order_id |-> Str(value.bid_order_id), lender_address |-> value.lender,
     borrower_address |-> value.borrower, terms |-> LoanTermsOf(value),
     amount |-> FromRaw(value.amount), status |-> value.status,
     created_block |-> value.created_block, repaid_amount |-> value.repaid_amount]

\* CreditDeal.from_json of the deal_data dict
DealFromJson(key, value) ==
    [deal_id |-> Str(key), ask_order_id |-> Str(value.ask_order_id),
     bid_order_id |-> Str(value.bid_order_id), lender_address |-> value.lender,
     borrower_address |-> value.borrower, terms |-> LoanTermsOf(value),
     amount |-> FromRaw(value.amount), status |-> value.status,
     created_block |-> value.created_block, repaid_amount |-> FromRaw(value.repaid_amount)]

\* Mutant: the comparison of the address filter inverted.
OrderAddressSkipsInverted(order, address) == TruthyStr(address) /\ order.address = address

\* "if lender_address and order.lender_address != lender_address: continue"
OrderAddressSkips(order, address) == TruthyStr(address) /\ order.address # address

\* Mutant: the status filter left out.
StatusSkipsNever(item, status) == FALSE

\* "if status and order.status != status: continue"
StatusSkips(item, status) == TruthyEnum(status) /\ item.status # status

\* Mutant: a deal is kept only when the address is both its lender and its borrower.
ParticipantSkipsUnlessBoth(deal, address) ==
    /\ TruthyStr(address)
    /\ deal.lender_address # address \/ deal.borrower_address # address

\* "if (participant_address and deal.lender_address != participant_address
\*      and deal.borrower_address != participant_address): continue"
ParticipantSkips(deal, address) ==
    /\ TruthyStr(address)
    /\ deal.lender_address # address
    /\ deal.borrower_address # address

(***************************************************************************)
(* The loop over query_map: entries are decoded and filtered in order; an  *)
(* exception raised while decoding leaves the loop and the function.       *)
(***************************************************************************)
RECURSIVE ScanOrders(_, _, _, _, _)
ScanOrders(entries, i, acc, address, status) ==
    IF i > Len(entries) THEN [exc |-> None, items |-> acc]
    ELSE IF OrderDecodeError(entries[i]) # None
         THEN [exc |-> OrderDecodeError(entries[i]), items |-> <<>>]
    ELSE LET order == OrderFromJson(i, entries[i])
         IN  IF OrderAddressSkips(order, address) \/ StatusSkips(order, status)
             THEN ScanOrders(entries, i + 1, acc, address, status)
             ELSE ScanOrders(entries, i + 1, Append(acc, order), address, status)

RECURSIVE ScanDeals(_, _, _, _, _)
ScanDeals(entries, i, acc, address, status) ==
    IF i > Len(entries) THEN [exc |-> None, items |-> acc]
    ELSE IF DealDecodeError(entries[i]) # None
         THEN [exc |-> DealDecodeError(entries[i]), items |-> <<>>]
    ELSE LET deal == DealFromJson(i, entries[i])
         IN  IF ParticipantSkips(deal, address) \/ StatusSkips(deal, status)
             THEN ScanDeals(entries, i + 1, acc, address, status)
             ELSE ScanDeals(entries, i + 1, Append(acc, deal), address, status)

\* The effect of a read operation on the client's variables.
ReadEnds(name, address, status, out, items, log) ==
    /\ op' = name
    /\ arg' = [address |-> address, status |-> status]
    /\ outcome' = out
    /\ listed' = items
    /\ returned' = NoValue
    /\ receipt' = NoReceipt
    /\ locals' = NoLocals
    /\ calls' = log
    /\ UNCHANGED <<chainVars, waitVars>>

\* The body of a listing: the try block and its except clause.
\* scanned is what the loop over the enumerated entries comes to.
Listing(name, storage, scanned, address, status) ==
    \/ \* the enumeration answers; the loop runs
       LET r == scanned
       IN  IF r.exc = None
           THEN ReadEnds(name, address, status, Return, r.items,
                         EnumerationCalls(storage, "ok"))
           ELSE ReadEnds(name, address, status, Raise(r.exc, <<"decode">>), <<>>,
                         EnumerationCalls(storage, "ok"))
    \/ \* except SubstrateRequestException: logger.error(...); return []
       ReadEnds(name, address, status, Return, <<>>,
                EnumerationCalls(storage, "SubstrateRequestException"))
    \/ \* any other exception of the enumeration call is not caught
       ReadEnds(name, address, status, Raise("ConnectionError", <<"query_map">>), <<>>,
                EnumerationCalls(storage, "ConnectionError"))

AddressFilters == Addresses \cup {None, ""}

GetAskOrders ==
    /\ op = "idle"
    /\ \E address \in AddressFilters, status \in OrderStatusValues \cup {None} :
           Listing("get_ask_orders", "AskOrders",
                   ScanOrders(askOrders, 1, <<>>, address, status), address, status)

GetBidOrders ==
    /\ op = "idle"
    /\ \E address \in AddressFilters, status \in OrderStatusValues \cup {None} :
           Listing("get_bid_orders", "BidOrders",
                   ScanOrders(bidOrders, 1, <<>>, address, status), address, status)

GetCreditDeals ==
    /\ op = "idle"
    /\ \E address \in AddressFilters, status \in DealStatusValues \cup {None} :
           Listing("get_credit_deals", "Deals",
                   ScanDeals(deals, 1, <<>>, address, status), address, status)

(***************************************************************************)
(* Write path.  Every write operation follows one submission protocol:     *)
(* convert the keypair, compose the call, sign it, submit it and, when the *)
(* result is a success, assemble the receipt.  The node's answer to each   *)
(* call is an input; SubmissionRuns is the set of ways the protocol can    *)
(* run, each with the operation's outcome, its receipt and the calls made. *)
(***************************************************************************)
\* The error messages the node may report.
ChainMessages == {"BadOrigin", "InsufficientFunds"}

\* The blocks a submission may be included in.
Blocks == {7, 8}

\* The fees get_payment_info may report (partialFee, in planck).
PartialFees == {PlanckPerCent, 2 * PlanckPerCent}

Run(out, rc, log) == [out |-> out, rc |-> rc, log |-> log, loc |-> NoLocals]

\* An exception raised inside the try block: "except SubstrateRequestException
\* as e: raise TransactionError(f"<prefix>: {e}")"; any other exception propagates.
Caught(prefix, exc, message) ==
    IF exc = "SubstrateRequestException"
    THEN Raise("TransactionError", <<prefix, message>>)
    ELSE Raise(exc, <<message>>)

\* Mutant: the rejection raised without the result's error message.
RejectedWithoutMessage(prefix, message) == Raise("TransactionError", <<prefix>>)

\* "if result.is_success: ... else: raise TransactionError(f"<prefix>: {result.error_message}")"
Rejected(prefix, message) == Raise("TransactionError", <<prefix, message>>)

\* "float(payment_info['partialFee']) / 10**18 if payment_info else <default>"
ActualFee(paymentInfo, default) ==
    IF paymentInfo = 0 THEN default ELSE FromRaw(paymentInfo)

\* Mutant: the receipt carries the number of the block before the result's.
ReceiptOfParentBlock(block, fee) ==
    [status |-> "success", tx_hash |-> <<"tx", block>>, block_hash |-> <<"block", block>>,
     block_number |-> block - 1, fee |-> fee, timestamp |-> block]

\* TransactionReceipt(tx_hash=result.extrinsic_hash, block_hash=result.block_hash, ...)
ReceiptOf(block, fee) ==
    [status |-> "success", tx_hash |-> <<"tx", block>>, block_hash |-> <<"block", block>>,
     block_number |-> block, fee |-> fee, timestamp |-> block]

\* The receipt assembly after a successful submission in block b; log holds the
\* calls made so far.  paymentInfo 0 stands for a falsy payment_info.
ReceiptRuns(prefix, b, log, feeDefault) ==
    LET events(r) == Append(log, Call("get_events", <<b>>, r))
        payment(r, p) == Append(events("ok"), Call("get_payment_info", <<p>>, r))
        stamp(r, p) == Append(payment("ok", p), Call("get_block_timestamp", <<b>>, r))
    IN  {Run(Caught(prefix, f, "get_events"), NoReceipt, events(f)) : f \in RpcFailures}
        \cup {Run(Caught(prefix, f, "get_payment_info"), NoReceipt, payment(f, 0)) :
                  f \in RpcFailures}
        \cup {Run(Caught(prefix, f, "get_block_timestamp"), NoReceipt, stamp(f, p)) :
                  f \in RpcFailures, p \in PartialFees \cup {0}}
        \cup {Run(Return, ReceiptOf(b, ActualFee(p, feeDefault)), stamp("ok", p)) :
                  p \in PartialFees \cup {0}}

\* Mutant: a submission that ends with the node's error is made a second time.
SubmitRunsRetrying(prefix, rejectPrefix, log, feeDefault) ==
    LET first == Append(log, Call("submit_extrinsic", <<"BadOrigin">>,
                                  "SubstrateRequestException"))
        again(r, d) == Append(first, Call("submit_extrinsic", d, r))
    IN  {Run(Caught(prefix, f, m), NoReceipt, again(f, <<m>>)) :
             f \in RpcFailures, m \in ChainMessages}
        \cup {Run(Rejected(rejectPrefix, m), NoReceipt, again("failed", <<m>>)) :
                  m \in ChainMessages}
        \cup UNION {ReceiptRuns(prefix, b, again("success", <<b>>), feeDefault) : b \in Blocks}

\* The submission of the signed extrinsic and what follows it.  A submission made
\* with wait_for_inclusion=False returns a result of no block ("unincluded"):
\* reading result.is_success then raises the library's ValueError or, the flag being
\* unset, takes the else branch with no error message.
SubmitRuns(prefix, rejectPrefix, log, feeDefault) ==
    LET submit(r, d) == Append(log, Call("submit_extrinsic", d, r))
    IN  {Run(Caught(prefix, f, m), NoReceipt, submit(f, <<m>>)) :
             f \in RpcFailures, m \in ChainMessages}
        \cup {Run(Rejected(rejectPrefix, m), NoReceipt, submit("failed", <<m>>)) : m \in ChainMessages}
        \cup {Run(Raise("ValueError", <<"is_success">>), NoReceipt, submit("unincluded", <<None>>)),
              Run(Rejected(rejectPrefix, None), NoReceipt, submit("unincluded", <<None>>))}
        \cup UNION {ReceiptRuns(prefix, b, submit("success", <<b>>), feeDefault) : b \in Blocks}

\* The try block of a write operation: prefix is the message prefix of the except
\* clause, rejectPrefix that of a rejected result, module.fn(params) the call, log
\* the calls made before the try block, feeDefault the fee without payment info.
SubmissionRuns(prefix, rejectPrefix, module, fn, params, keyOk, log, feeDefault) ==
    LET compose(r) == Append(log, Call("compose_call", <<module, fn, params>>, r))
        sign(r) == Append(compose("ok"), Call("create_signed_extrinsic", <<>>, r))
    IN  IF ~keyOk
        THEN {Run(Raise("ValueError", <<"create_from_private_key">>), NoReceipt, log)}
        ELSE {Run(Caught(prefix, f, "compose_call"), NoReceipt, compose(f)) : f \in RpcFailures}
             \cup {Run(Caught(prefix, f, "create_signed_extrinsic"), NoReceipt, sign(f)) :
                       f \in RpcFailures}
             \cup SubmitRuns(prefix, rejectPrefix, sign("ok"), feeDefault)

\* What a write operation leaves in the client's variables.
WriteReturns(name, a, run) ==
    /\ op' = name
    /\ arg' = a
    /\ outcome' = run.out
    /\ listed' = <<>>
    /\ returned' = NoValue
    /\ receipt' = run.rc
    /\ locals' = run.loc
    /\ calls' = run.log

\* The effect of a write operation on the client's variables.
WriteEnds(name, a, run) ==
    /\ WriteReturns(name, a, run)
    /\ UNCHANGED <<chainVars, waitVars>>

(***************************************************************************)
(* Marketplace writes.                                                     *)
(***************************************************************************)
Keypairs == [address : {"5Alice"}, keyOk : BOOLEAN]

\* LoanTerms: principal in cents, interest_rate in percent; collateral_given
\* is FALSE when collateral_amount is None.
LoanTermsInputs ==
    [principal : {-100, 0, 100}, interest_rate : {-1, 0, 5}, duration_days : {0, 90},
     collateral_required : BOOLEAN, collateral_given : BOOLEAN, collateral_amount : {0, 120}]

DefaultExpiryBlocks == 14400

\* "if terms.collateral_required and terms.collateral_amount:"
SendsCollateral(terms) ==
    terms.collateral_required /\ terms.collateral_given /\ terms.collateral_amount # 0

\* call_params of create_ask_order and create_bid_order
OrderCallParams(terms, expiry) ==
    [principal |-> ToRaw(terms.principal),
     interest_rate |-> ToBasisPoints(terms.interest_rate),
     duration |-> terms.duration_days,
     collateral_required |-> terms.collateral_required,
     expiry |-> expiry,
     has_collateral_amount |-> SendsCollateral(terms),
     collateral_amount |-> IF SendsCollateral(terms) THEN ToRaw(terms.collateral_amount) ELSE 0]

CreateOrderRuns(prefix, fn, keypair, terms, expiry) ==
    SubmissionRuns(prefix, prefix, "Credit", fn, OrderCallParams(terms, expiry),
                   keypair.keyOk, <<>>, 0)

CreateAskOrder ==
    /\ op = "idle"
    /\ \E keypair \in Keypairs, terms \in LoanTermsInputs :
         \E run \in CreateOrderRuns("Ask order creation failed", "create_ask_order",
                                    keypair, terms, DefaultExpiryBlocks) :
            WriteEnds("create_ask_order", [keypair |-> keypair, terms |-> terms], run)

CreateBidOrder ==
    /\ op = "idle"
    /\ \E keypair \in Keypairs, terms \in LoanTermsInputs :
         \E run \in CreateOrderRuns("Bid order creation failed", "create_bid_order",
                                    keypair, terms, DefaultExpiryBlocks) :
            WriteEnds("create_bid_order", [keypair |-> keypair, terms |-> terms], run)

\* Mutant: the two branches of the dispatch exchanged.
AcceptFunctionSwapped(order_type) ==
    IF order_type = "ask" THEN "accept_bid_order" ELSE "accept_ask_order"

\* "if order_type == OrderType.ASK: ... else: ..."
AcceptFunction(order_type) ==
    IF order_type = "ask" THEN "accept_ask_order" ELSE "accept_bid_order"

AcceptOfferRuns(keypair, order_id, order_type) ==
    SubmissionRuns("Offer acceptance failed", "Offer acceptance failed", "Credit",
                   AcceptFunction(order_type),
                   [order_id |-> order_id], keypair.keyOk, <<>>, 0)

AcceptOffer ==
    /\ op = "idle"
    /\ \E keypair \in Keypairs, order_id \in {Str(1), Str(2)}, order_type \in {"ask", "bid"} :
         \E run \in AcceptOfferRuns(keypair, order_id, order_type) :
            WriteEnds("accept_offer",
                      [keypair |-> keypair, order_id |-> order_id, order_type |-> order_type],
                      run)

RepayLoanRuns(keypair, deal_id, amount) ==
    SubmissionRuns("Loan repayment failed", "Loan repayment failed", "Credit", "repay_loan",
                   [deal_id |-> deal_id, amount |-> ToRaw(amount)], keypair.keyOk, <<>>, 0)

RepayLoan ==
    /\ op = "idle"
    /\ \E keypair \in Keypairs, deal_id \in {Str(1)}, amount \in -1..MaxAmount :
         \E run \in RepayLoanRuns(keypair, deal_id, amount) :
            WriteEnds("repay_loan",
                      [keypair |-> keypair, deal_id |-> deal_id, amount |-> amount], run)

(***************************************************************************)
(* The writes together with the chain's reaction.  The chain keeps an      *)
(* included create_ask_order call as an active ask order holding the call  *)
(* parameters, and adds an included repayment to the deal's repaid amount; *)
(* it includes a repayment only when the amount is positive and the deal's *)
(* repaid amount stays within its amount.                                  *)
(***************************************************************************)
\* The submission was included in a block.
Included(log) ==
    \E i \in 1..Len(log) : log[i].fn = "submit_extrinsic" /\ log[i].res = "success"

\* The block of the inclusion (result.block_number).
InclusionBlock(log) ==
    LET i == CHOOSE j \in 1..Len(log) :
                 log[j].fn = "submit_extrinsic" /\ log[j].res = "success"
    IN  log[i].detail[1]

\* The AskOrders entry the chain keeps of a call signed by who.
AskOrderStored(who, params, block) ==
    [party |-> who, principal |-> params.principal, interest_rate |-> params.interest_rate,
     duration |-> params.duration, collateral_required |-> params.collateral_required,
     expiry |-> params.expiry, status |-> "active", created_block |-> block, missing |-> {},
     collateral_amount |-> IF params.has_collateral_amount THEN params.collateral_amount ELSE 0]

\* Terms a lender may offer: positive principal, rate and duration.
ScenarioTerms ==
    {t \in LoanTermsInputs : t.principal > 0 /\ t.interest_rate > 0 /\ t.duration_days > 0}

\* create_ask_order against the chain
CreateAskOrderStored ==
    /\ op = "idle"
    /\ Len(askOrders) < MaxEntries
    /\ \E keypair \in Keypairs, terms \in ScenarioTerms :
         \E run \in CreateOrderRuns("Ask order creation failed", "create_ask_order",
                                    keypair, terms, DefaultExpiryBlocks) :
            /\ WriteReturns("create_ask_order", [keypair |-> keypair, terms |-> terms], run)
            /\ askOrders' =
                   IF Included(run.log)
                   THEN Append(askOrders,
                               AskOrderStored(keypair.address,
                                              OrderCallParams(terms, DefaultExpiryBlocks),
                                              InclusionBlock(run.log)))
                   ELSE askOrders
            /\ UNCHANGED <<bidOrders, deals, sysAccount, waitVars>>

\* The deal of the repayment scenario: 5Bob lent to 5Alice.
ScenarioDeal ==
    [RawDeal("5Bob", "5Alice", "pending", {}) EXCEPT !.amount = (MaxAmount + 1) * PlanckPerCent]

\* The repayments the chain includes.
RepayAccepted(deal, raw) == raw > 0 /\ deal.repaid_amount + raw <= deal.amount

DealAfterRepay(deal, raw) == [deal EXCEPT !.repaid_amount = @ + raw]

\* repay_loan against the chain holding the scenario's deal as deal 1
RepayLoanApplied ==
    /\ op = "idle"
    /\ Len(deals) >= 1
    /\ \E keypair \in Keypairs, deal_id \in {Str(1)}, amount \in -1..MaxAmount :
         \E run \in RepayLoanRuns(keypair, deal_id, amount) :
            /\ Included(run.log) => RepayAccepted(deals[1], ToRaw(amount))
            /\ WriteReturns("repay_loan",
                            [keypair |-> keypair, deal_id |-> deal_id, amount |-> amount], run)
            /\ deals' = IF Included(run.log)
                        THEN [deals EXCEPT ![1] = DealAfterRepay(@, ToRaw(amount))]
                        ELSE deals
            /\ UNCHANGED <<askOrders, bidOrders, sysAccount, waitVars>>

(***************************************************************************)
(* Addresses, balances, the fee estimate and transfer.                     *)
(***************************************************************************)
\* The strings the key library decodes as SS58 addresses of the format.
Ss58Decodes(address) == address \in Addresses

\* ss58_decode and the address the library's Keypair then carries
Ss58PublicKey(address) == <<"pk", address>>

Ss58Address(publicKey) == publicKey[2]

\* Mutant: every string passes the validation.
ValidateAddressAlways(address) == TRUE

\* AccountManager.validate_address: "try: ... return keypair.ss58_address ==
\* address; except: return False"
ValidateAddress(address) ==
    IF Ss58Decodes(address) THEN Ss58Address(Ss58PublicKey(address)) = address ELSE FALSE

ZeroBalance == [balance |-> 0, locked |-> 0, reserved |-> 0, total |-> 0]

\* Mutant: the locked part leaves out the fee lock.
BalanceOfMiscFrozenOnly(data) ==
    [balance |-> FromRaw(data.free),
     locked |-> FromRaw(data.misc_frozen),
     reserved |-> FromRaw(data.reserved),
     total |-> FromRaw(data.free) + FromRaw(data.reserved)]

\* TokenBalance of an existing account's data
BalanceOf(data) ==
    [balance |-> FromRaw(data.free),
     locked |-> FromRaw(data.misc_frozen) + FromRaw(data.fee_frozen),
     reserved |-> FromRaw(data.reserved),
     total |-> FromRaw(data.free) + FromRaw(data.reserved)]

\* The System.Account records of the sender (free balances in whole cents).
AccountData ==
    [exists : {TRUE}, free : {k * PlanckPerCent : k \in 0..(MaxAmount + 1)},
     reserved : {5 * PlanckPerCent}, misc_frozen : {PlanckPerCent},
     fee_frozen : {2 * PlanckPerCent}, nonce : {7}]

\* The answer of the System.Account query for an address without a record (falsy).
NoAccount ==
    [exists |-> FALSE, free |-> 0, reserved |-> 0, misc_frozen |-> 0, fee_frozen |-> 0,
     nonce |-> 0]

\* get_balance(address) with the chain holding account (NoAccount: no record): the
\* ways it can end, each with its outcome, the balance returned and the calls.
GetBalanceRuns(address, account, log) ==
    LET query(r) == Append(log, Call("query", <<"System", "Account", address>>, r))
    IN  IF ~ValidateAddress(address)
        THEN {[out |-> Raise("InvalidAddressError", <<"Invalid Creditcoin address", address>>),
               balance |-> ZeroBalance, log |-> log]}
        ELSE {[out |-> Raise("NetworkError", <<"Failed to get balance", "query">>),
               balance |-> ZeroBalance, log |-> query("SubstrateRequestException")],
              [out |-> Raise("ConnectionError", <<"query">>),
               balance |-> ZeroBalance, log |-> query("ConnectionError")],
              [out |-> Return,
               balance |-> IF ~account.exists THEN ZeroBalance ELSE BalanceOf(account),
               log |-> query("ok")]}

\* "return 0.01": the default and fallback estimate, in cents
FallbackFee == 1

\* get_transfer_fee_estimate: the estimate returned and the calls made.  Every
\* exception is caught ("except Exception") and answered by the fallback.
FeeEstimateRuns(from_address, to_address, amount, log) ==
    LET compose(r) ==
            Append(log, Call("compose_call",
                             <<"Balances", "transfer_keep_alive",
                               [dest |-> to_address, value |-> ToRaw(amount)]>>, r))
        payment(r, p) == Append(compose("ok"), Call("get_payment_info", <<p>>, r))
    IN  IF ~Ss58Decodes(from_address)
        THEN {[fee |-> FallbackFee, log |-> log]}
        ELSE {[fee |-> FallbackFee, log |-> compose(f)] : f \in RpcFailures}
             \cup {[fee |-> FallbackFee, log |-> payment(f, 0)] : f \in RpcFailures}
             \cup {[fee |-> FallbackFee, log |-> payment("ok", 0)]}
             \cup {[fee |-> FromRaw(p), log |-> payment("ok", p)] : p \in PartialFees}

\* Mutant: the gate compares the balance with the amount alone.
InsufficientIgnoringFee(balance, amount, fee_estimate) == balance.balance < amount

\* Mutant: a balance equal to amount + fee estimate is refused as well.
InsufficientOrEqual(balance, amount, fee_estimate) == balance.balance <= amount + fee_estimate

\* "if balance.balance < amount + fee_estimate: raise InsufficientBalanceError"
Insufficient(balance, amount, fee_estimate) == balance.balance < amount + fee_estimate

\* The runs with transfer's local variables set.
WithLocals(runs, balance, fee_estimate) ==
    {[r EXCEPT !.loc = [known |-> TRUE, balance |-> balance.balance,
                        fee_estimate |-> fee_estimate, lookups |-> <<>>]] : r \in runs}

\* transfer after the balance and the fee estimate are known
GatedTransferRuns(keypair, to_address, amount, balance, est) ==
    WithLocals(
        IF Insufficient(balance, amount, est.fee)
        THEN {Run(Raise("InsufficientBalanceError", <<"Insufficient balance">>),
                  NoReceipt, est.log)}
        ELSE SubmissionRuns("Transfer failed", "Transaction failed", "Balances",
                            "transfer_keep_alive",
                            [dest |-> to_address, value |-> ToRaw(amount)],
                            keypair.keyOk, est.log, est.fee),
        balance, est.fee)

\* CreditScanClient.transfer
TransferRuns(keypair, to_address, amount, account) ==
    IF ~ValidateAddress(to_address)
    THEN {Run(Raise("InvalidAddressError", <<"Invalid recipient address", to_address>>),
              NoReceipt, <<>>)}
    ELSE UNION {
           IF b.out.kind = "raise"
           THEN {Run(b.out, NoReceipt, b.log)}
           ELSE UNION {GatedTransferRuns(keypair, to_address, amount, b.balance, est) :
                         est \in FeeEstimateRuns(keypair.address, to_address, amount, b.log)}
           : b \in GetBalanceRuns(keypair.address, account, <<>>)}

TransferKeypairs == [address : {"5Alice", "invalid_sender"}, keyOk : BOOLEAN]

Transfer ==
    /\ op = "idle"
    /\ \E keypair \in TransferKeypairs, to_address \in {"5Bob", "invalid_address"},
          amount \in -1..MaxAmount :
         \E run \in TransferRuns(keypair, to_address, amount, sysAccount) :
            WriteEnds("transfer",
                      [keypair |-> keypair, to_address |-> to_address, amount |-> amount], run)

(***************************************************************************)
(* get_balances_bulk: a loop of get_balance calls, each in its own try.    *)
(* What the node holds for an address is an input of each lookup.          *)
(***************************************************************************)
BulkAddresses == {"5Alice", "5Bob", "invalid_address"}

\* "results[address] = value" on a dict
DictSet(d, k, v) == [x \in DOMAIN d \cup {k} |-> IF x = k THEN v ELSE d[x]]

\* Mutant: the placeholder is stored whether or not the lookup succeeded.
BulkEntryAlwaysPlaceholder(lookup) == ZeroBalance

\* "try: results[address] = self.get_balance(address)
\*  except Exception as e: ...; results[address] = TokenBalance(... 0 ...)"
BulkEntry(lookup) == IF lookup.out.kind = "raise" THEN ZeroBalance ELSE lookup.balance

\* The loop from position i on: the dict built, the lookups made and the calls.
RECURSIVE BulkRuns(_, _, _, _, _)
BulkRuns(addresses, i, results, lookups, log) ==
    IF i > Len(addresses)
    THEN {[results |-> results, lookups |-> lookups, log |-> log]}
    ELSE UNION {
           BulkRuns(addresses, i + 1,
                    DictSet(results, addresses[i], BulkEntry(l)),
                    Append(lookups, [address |-> addresses[i], out |-> l.out,
                                     balance |-> l.balance]),
                    l.log)
           : l \in UNION {GetBalanceRuns(addresses[i], account, log) :
                             account \in AccountData \cup {NoAccount}}}

GetBalancesBulk ==
    /\ op = "idle"
    /\ \E addresses \in SeqsUpTo(BulkAddresses, MaxAddresses) :
         \E run \in BulkRuns(addresses, 1, <<>>, <<>>, <<>>) :
            /\ op' = "get_balances_bulk"
            /\ arg' = [addresses |-> addresses]
            /\ outcome' = Return
            /\ listed' = <<>>
            /\ returned' = <<"dict", run.results>>
            /\ receipt' = NoReceipt
            /\ locals' = [NoLocals EXCEPT !.lookups = run.lookups]
            /\ calls' = run.log
            /\ UNCHANGED <<chainVars, waitVars>>

\* How a balance or account read ends.
BalanceEnds(name, address, out, value, log) ==
    /\ op' = name
    /\ arg' = [address |-> address]
    /\ outcome' = out
    /\ listed' = <<>>
    /\ returned' = IF out.kind = "return" THEN value ELSE NoValue
    /\ receipt' = NoReceipt
    /\ locals' = NoLocals
    /\ calls' = log
    /\ UNCHANGED <<chainVars, waitVars>>

\* CreditScanClient.get_balance of the account the chain holds
GetBalance ==
    /\ op = "idle"
    /\ \E address \in BulkAddresses :
         \E run \in GetBalanceRuns(address, sysAccount, <<>>) :
            BalanceEnds("get_balance", address, run.out, <<"balance", run.balance>>, run.log)

\* "nonce = account_info.value['nonce'] if account_info else 0"
NonceOf(account) == IF ~account.exists THEN 0 ELSE account.nonce

\* AddressInfo(address, balance.balance, nonce, balance.locked, transaction_count=nonce)
AddressInfoOf(address, balance, nonce) ==
    [address |-> address, balance |-> balance.balance, nonce |-> nonce,
     locked_balance |-> balance.locked, transaction_count |-> nonce]

\* get_account_info: get_balance outside the try, then the second query of the
\* same storage item.
GetAccountInfoRuns(address, account) ==
    UNION {
      IF b.out.kind = "raise"
      THEN {[out |-> b.out, info |-> NoValue, log |-> b.log]}
      ELSE LET query(r) ==
                   Append(b.log, Call("query", <<"System", "Account", address>>, r))
           IN  {[out |-> Raise("NetworkError", <<"Failed to get account info", "query">>),
                 info |-> NoValue, log |-> query("SubstrateRequestException")],
                [out |-> Raise("ConnectionError", <<"query">>),
                 info |-> NoValue, log |-> query("ConnectionError")],
                [out |-> Return,
                 info |-> <<"info", AddressInfoOf(address, b.balance, NonceOf(account))>>,
                 log |-> query("ok")]}
      : b \in GetBalanceRuns(address, account, <<>>)}

GetAccountInfo ==
    /\ op = "idle"
    /\ \E address \in BulkAddresses :
         \E run \in GetAccountInfoRuns(address, sysAccount) :
            BalanceEnds("get_account_info", address, run.out, run.info, run.log)

(***************************************************************************)
(* AccountManager.  The key library is an input: the strings it decodes,   *)
(* the phrases it generates and accepts, the exceptions it raises.         *)
(***************************************************************************)
\* The SS58 formats in use: 42 (the SDK's default) and 0.
Ss58Formats == {42, 0}

AddressStrings == {"5Alice", "5Bob", "1Alice", "invalid_address", ""}

\* The strings that are well-formed SS58 addresses, and the format each encodes.
Ss58WellFormed(address) == address \in {"5Alice", "5Bob", "1Alice"}

Ss58FormatOf(address) == IF address = "1Alice" THEN 0 ELSE 42

\* The address of the same public key under another format.
Ss58Encode(address, ss58_format) ==
    IF ss58_format = Ss58FormatOf(address) THEN address
    ELSE IF address = "1Alice" THEN "5Alice"
    ELSE IF address = "5Alice" THEN "1Alice"
    ELSE "1Bob"

\* The exceptions the key library raises on input it cannot use.
LibraryFailures == {"ValueError", "TypeError"}

\* Keypair(ss58_address=address, ss58_format=ss58_format): the ways the library
\* can answer.  A string that is no address makes it raise; an address of another
\* format makes it raise or yields a keypair whose ss58_address is the re-encoding
\* under ss58_format.
KeypairOfAddress(address, ss58_format) ==
    IF ~Ss58WellFormed(address)
    THEN {[res |-> f, ss58_address |-> ""] : f \in LibraryFailures}
    ELSE IF Ss58FormatOf(address) # ss58_format
    THEN {[res |-> "ValueError", ss58_address |-> ""],
          [res |-> "ok", ss58_address |-> Ss58Encode(address, ss58_format)]}
    ELSE {[res |-> "ok", ss58_address |-> address]}

\* Mutant: a keypair that could be built validates, whatever its address.
SameAddressAlways(ss58_address, address) == TRUE

\* "return keypair.ss58_address == address"
SameAddress(ss58_address, address) == ss58_address = address

\* AccountManager.validate_address(address, ss58_format):
\* "try: ... return keypair.ss58_address == address; except: return False"
ValidateAddressRuns(address, ss58_format) ==
    {[out |-> Return,
      value |-> <<"bool", IF k.res = "ok" THEN SameAddress(k.ss58_address, address) ELSE FALSE>>,
      log |-> <<Call("Keypair", <<address, ss58_format>>, k.res)>>]
     : k \in KeypairOfAddress(address, ss58_format)}

\* The effect of an account operation on the client's variables.
AccountEnds(name, a, run) ==
    /\ op' = name
    /\ arg' = a
    /\ outcome' = run.out
    /\ listed' = <<>>
    /\ returned' = run.value
    /\ receipt' = NoReceipt
    /\ locals' = NoLocals
    /\ calls' = run.log
    /\ UNCHANGED <<chainVars, waitVars>>

ValidateAddressCall ==
    /\ op = "idle"
    /\ \E address \in AddressStrings, ss58_format \in Ss58Formats :
         \E run \in ValidateAddressRuns(address, ss58_format) :
            AccountEnds("validate_address",
                        [address |-> address, ss58_format |-> ss58_format], run)

\* "[12, 15, 18, 21, 24]"
MnemonicWordCounts == {12, 15, 18, 21, 24}

\* The word counts callers pass.
WordCountInputs == {0, 11, 12, 13, 15, 18, 21, 24, 25}

\* A phrase is the sequence of its words; the library's phrases repeat one word.
Phrase(n, word) == [i \in 1..n |-> word]

LibraryWords == {"abandon", "zoo"}

\* Mutant: only the lower limit of the word count is checked.
WordCountAllowedFrom12(words_count) == words_count >= 12

\* "if words_count not in [12, 15, 18, 21, 24]: raise KeypairError(...)", negated
WordCountAllowed(words_count) == words_count \in MnemonicWordCounts

\* AccountManager.generate_mnemonic(words_count)
GenerateMnemonicRuns(words_count) ==
    IF ~WordCountAllowed(words_count)
    THEN {[out |-> Raise("KeypairError", <<"Word count must be 12, 15, 18, 21, or 24">>),
           value |-> NoValue, log |-> <<>>]}
    ELSE {[out |-> Return, value |-> <<"str", Phrase(words_count, w)>>,
           log |-> <<Call("Keypair.generate_mnemonic",
                          <<words_count, Phrase(words_count, w)>>, "ok")>>]
          : w \in LibraryWords}

GenerateMnemonic ==
    /\ op = "idle"
    /\ \E words_count \in WordCountInputs :
         \E run \in GenerateMnemonicRuns(words_count) :
            AccountEnds("generate_mnemonic", [words_count |-> words_count], run)

\* The phrases the library derives keys from.
ValidMnemonic(mnemonic) ==
    /\ Len(mnemonic) \in MnemonicWordCounts
    /\ \A i \in 1..Len(mnemonic) : mnemonic[i] \in LibraryWords /\ mnemonic[i] = mnemonic[1]

\* The address of the key of a secret under a format.
KeyAddress(secret, ss58_format) ==
    IF secret = "abandon"
    THEN (IF ss58_format = 42 THEN "5Alice" ELSE "1Alice")
    ELSE (IF ss58_format = 42 THEN "5Bob" ELSE "1Bob")

\* The library's Keypair of a secret.
LibraryKeypair(secret, ss58_format) ==
    [private_key |-> <<"sk", secret>>, public_key |-> <<"pk", secret>>,
     ss58_address |-> KeyAddress(secret, ss58_format)]

NoLibraryKeypair == [private_key |-> <<>>, public_key |-> <<>>, ss58_address |-> ""]

\* SDKKeypair(mnemonic=..., private_key=keypair.private_key, ...)
SDKKeypairOf(mnemonic, keypair, ss58_format) ==
    [mnemonic |-> mnemonic, private_key |-> keypair.private_key,
     public_key |-> keypair.public_key, address |-> keypair.ss58_address,
     ss58_format |-> ss58_format]

\* Mutant: the library's exception leaves the function as it is.
DerivationFailedUnwrapped(prefix, exc) == Raise(exc, <<prefix>>)

\* "except Exception as e: raise KeypairError(f"<prefix>: {e}")"
DerivationFailed(prefix, exc) == Raise("KeypairError", <<prefix, exc>>)

\* AccountManager.create_from_mnemonic(mnemonic, ss58_format), after the calls of log
CreateFromMnemonicRuns(mnemonic, ss58_format, log) ==
    LET derive(k, r) ==
            Append(log, Call("Keypair.create_from_mnemonic", <<mnemonic, ss58_format, k>>, r))
    IN  IF ValidMnemonic(mnemonic)
        THEN {[out |-> Return,
               value |-> <<"keypair",
                           SDKKeypairOf(mnemonic, LibraryKeypair(mnemonic[1], ss58_format),
                                        ss58_format)>>,
               log |-> derive(LibraryKeypair(mnemonic[1], ss58_format), "ok")]}
        ELSE {[out |-> DerivationFailed("Failed to create keypair from mnemonic", f),
               value |-> NoValue, log |-> derive(NoLibraryKeypair, f)]
              : f \in LibraryFailures}

\* The phrases callers pass: the library's, the test's twelve times "word", a phrase
\* one word short, the empty phrase.
MnemonicInputs ==
    {Phrase(n, w) : n \in {12, 15, 24}, w \in LibraryWords}
        \cup {Phrase(12, "word"), Phrase(11, "abandon"), <<>>}

CreateFromMnemonic ==
    /\ op = "idle"
    /\ \E mnemonic \in MnemonicInputs, ss58_format \in Ss58Formats :
         \E run \in CreateFromMnemonicRuns(mnemonic, ss58_format, <<>>) :
            AccountEnds("create_from_mnemonic",
                        [mnemonic |-> mnemonic, ss58_format |-> ss58_format], run)

\* The hex strings that are private keys, and the secret of each.
PrivateKeyInputs == {"0x01", "0x02", "0x", "nothex"}

ValidPrivateKey(private_key_hex) == private_key_hex \in {"0x01", "0x02"}

SecretOf(private_key_hex) == IF private_key_hex = "0x01" THEN "abandon" ELSE "zoo"

\* AccountManager.create_from_private_key(private_key_hex, ss58_format)
CreateFromPrivateKeyRuns(private_key_hex, ss58_format) ==
    LET derive(k, r) ==
            <<Call("Keypair.create_from_private_key", <<private_key_hex, ss58_format, k>>, r)>>
    IN  IF ValidPrivateKey(private_key_hex)
        THEN {[out |-> Return,
               value |-> <<"keypair",
                           SDKKeypairOf(<<>>,
                                        LibraryKeypair(SecretOf(private_key_hex), ss58_format),
                                        ss58_format)>>,
               log |-> derive(LibraryKeypair(SecretOf(private_key_hex), ss58_format), "ok")]}
        ELSE {[out |-> DerivationFailed("Failed to create keypair from private key", f),
               value |-> NoValue, log |-> derive(NoLibraryKeypair, f)]
              : f \in LibraryFailures}

CreateFromPrivateKey ==
    /\ op = "idle"
    /\ \E private_key_hex \in PrivateKeyInputs, ss58_format \in Ss58Formats :
         \E run \in CreateFromPrivateKeyRuns(private_key_hex, ss58_format) :
            AccountEnds("create_from_private_key",
                        [private_key_hex |-> private_key_hex, ss58_format |-> ss58_format],
                        run)

\* AccountManager.create_new_account(words_count, ss58_format):
\* "mnemonic = generate_mnemonic(words_count); return create_from_mnemonic(mnemonic, ...)"
CreateNewAccountRuns(words_count, ss58_format) ==
    UNION {IF g.out.kind = "raise"
           THEN {g}
           ELSE CreateFromMnemonicRuns(g.value[2], ss58_format, g.log)
           : g \in GenerateMnemonicRuns(words_count)}

CreateNewAccount ==
    /\ op = "idle"
    /\ \E words_count \in WordCountInputs, ss58_format \in Ss58Formats :
         \E run \in CreateNewAccountRuns(words_count, ss58_format) :
            AccountEnds("create_new_account",
                        [words_count |-> words_count, ss58_format |-> ss58_format], run)

\* CreditScanClient.create_account(words_count):
\* "return self.account_manager.create_new_account(words_count)"
CreateAccount ==
    /\ op = "idle"
    /\ \E words_count \in WordCountInputs :
         \E run \in CreateNewAccountRuns(words_count, 42) :
            AccountEnds("create_account", [words_count |-> words_count, ss58_format |-> 42],
                        run)

(***************************************************************************)
(* The amount codec.  A decimal is the fraction num / den; the product     *)
(* with the scale is taken exactly, then int() drops its fraction.         *)
(***************************************************************************)
\* 10 ** decimals
Pow10(decimals) == IF decimals = 0 THEN 1 ELSE IF decimals = 1 THEN 10 ELSE 100

\* int(x * factor) for x = num / den
IntOfScaled(num, den, factor) == Trunc(num * factor, den)

\* utils.to_raw_amount(amount, decimals): "return int(amount * (10 ** decimals))"
ToRawAmount(num, den, decimals) == IntOfScaled(num, den, Pow10(decimals))

\* "'interest_rate': int(terms.interest_rate * 100)"
RateToBasisPoints(num, den) == IntOfScaled(num, den, BasisPointsPerPercent)

\* The decimals callers pass: num / den.
CodecDecimals ==
    [num : (-3..30) \cup {299, 1000, 1005}, den : {1, 10, 1000}]

CodecEnds(name, a, value) ==
    /\ op' = name
    /\ arg' = a
    /\ outcome' = Return
    /\ listed' = <<>>
    /\ returned' = <<"int", value>>
    /\ receipt' = NoReceipt
    /\ locals' = NoLocals
    /\ calls' = <<>>
    /\ UNCHANGED <<chainVars, waitVars>>

ToRawAmountCall ==
    /\ op = "idle"
    /\ \E amount \in CodecDecimals, decimals \in 0..2 :
           CodecEnds("to_raw_amount", [amount |-> amount, decimals |-> decimals],
                     ToRawAmount(amount.num, amount.den, decimals))

\* The conversion of the rate in create_ask_order and create_bid_order.
InterestRateToWire ==
    /\ op = "idle"
    /\ \E rate \in CodecDecimals :
           CodecEnds("interest_rate_to_wire", [amount |-> rate, decimals |-> 2],
                     RateToBasisPoints(rate.num, rate.den))

(***************************************************************************)
(* The codec on floats.  A float is a binary floating-point number with    *)
(* MantissaBits bits of mantissa, rounded to nearest, ties to even, as the *)
(* interpreter's float is with 53 bits: [m, e] stands for m * 2^e, with    *)
(* 2^(MantissaBits-1) <= m < 2^MantissaBits, or m = 0.                     *)
(***************************************************************************)
MantissaBits == 8

\* The amounts are the decimals units / 10^decimals, units up to MaxUnits.
MaxUnits == 60

RECURSIVE Pow2(_)
Pow2(n) == IF n = 0 THEN 1 ELSE 2 * Pow2(n - 1)

FloatZero == [m |-> 0, e |-> 0]

\* The mantissa of num/den once Pow2(MantissaBits-1) <= num/den < Pow2(MantissaBits):
\* the quotient, rounded to nearest, ties to even.
RoundedMantissa(num, den) ==
    LET q == num \div den
        r == num - q * den
    IN  IF 2 * r > den \/ (2 * r = den /\ q % 2 = 1) THEN q + 1 ELSE q

\* The float nearest to (num / den) * 2^e, for num >= 0 and den > 0.
RECURSIVE FloatNearest(_, _, _)
FloatNearest(num, den, e) ==
    IF num = 0 THEN FloatZero
    ELSE IF num >= den * Pow2(MantissaBits) THEN FloatNearest(num, 2 * den, e + 1)
    ELSE IF num < den * Pow2(MantissaBits - 1) THEN FloatNearest(2 * num, den, e - 1)
    ELSE LET m == RoundedMantissa(num, den)
         IN  IF m = Pow2(MantissaBits)
             THEN [m |-> Pow2(MantissaBits - 1), e |-> e + 1]
             ELSE [m |-> m, e |-> e]

\* The float a decimal literal units / 10^decimals denotes.
FloatOfDecimal(units, decimals) == FloatNearest(units, Pow10(decimals), 0)

\* float * int, the int being converted exactly: the product, rounded.
FloatTimesInt(f, n) == FloatNearest(f.m * n, 1, f.e)

\* int(f): the fraction is dropped.
IntOfFloat(f) == IF f.e >= 0 THEN f.m * Pow2(f.e) ELSE f.m \div Pow2(0 - f.e)

\* utils.to_raw_amount: "return int(amount * (10 ** decimals))"
ToRawAmountOfFloat(amount, decimals) == IntOfFloat(FloatTimesInt(amount, Pow10(decimals)))

\* utils.format_amount: "return amount / (10 ** decimals)", the quotient of two
\* ints, rounded to the nearest float.
FormatAmount(amount, decimals) == FloatNearest(amount, Pow10(decimals), 0)

FloatInputs == [units : 0..MaxUnits, decimals : {1, 2}]

\* A caller encodes an amount and decodes the wire integer again.
FormatOfRawAmount ==
    /\ op = "idle"
    /\ \E a \in FloatInputs :
         LET amount == FloatOfDecimal(a.units, a.decimals)
             raw == ToRawAmountOfFloat(amount, a.decimals)
         IN  /\ op' = "format_amount"
             /\ arg' = [units |-> a.units, decimals |-> a.decimals, amount |-> amount,
                        raw |-> raw]
             /\ outcome' = Return
             /\ listed' = <<>>
             /\ returned' = <<"float", FormatAmount(raw, a.decimals)>>
             /\ receipt' = NoReceipt
             /\ locals' = NoLocals
             /\ calls' = <<>>
             /\ UNCHANGED <<chainVars, waitVars>>

\* "timeout: int = 30"
DefaultTimeout == 30

(***************************************************************************)
(* The wait for inclusion.  submit_extrinsic(extrinsic, wait_for_inclusion  *)
(* =True) blocks the caller until the node answers.  The client stores the *)
(* timeout of its construction in self.timeout and hands it to nothing:    *)
(* neither to SubstrateInterface nor to submit_extrinsic.  Time is counted *)
(* in units of waiting, up to MaxWait.                                     *)
(***************************************************************************)
MaxWait == 32

\* The timeouts a client is constructed with.
Timeouts == {1, DefaultTimeout}

\* The calls of create_ask_order up to the submission it blocks in.
WaitingCalls(terms, expiry) ==
    <<Call("compose_call", <<"Credit", "create_ask_order", OrderCallParams(terms, expiry)>>,
           "ok"),
      Call("create_signed_extrinsic", <<>>, "ok"),
      Call("submit_extrinsic", <<"wait_for_inclusion">>, "waiting")>>

\* The operation is blocked in submit_extrinsic.
Waiting == op = "create_ask_order" /\ outcome = NoOutcome

\* create_ask_order up to the point where it waits for the inclusion
CreateAskOrderWaits ==
    /\ op = "idle"
    /\ \E keypair \in Keypairs, terms \in ScenarioTerms :
         /\ keypair.keyOk
         /\ op' = "create_ask_order"
         /\ arg' = [keypair |-> keypair, terms |-> terms]
         /\ calls' = WaitingCalls(terms, DefaultExpiryBlocks)
    /\ outcome' = NoOutcome
    /\ waited' = 0
    /\ UNCHANGED <<listed, returned, receipt, locals, chainVars, timeout>>

\* A unit of time passes with the node not answering; no branch of the code
\* ends the wait.
WaitGoesOn ==
    /\ Waiting
    /\ waited < MaxWait
    /\ waited' = waited + 1
    /\ UNCHANGED <<op, arg, outcome, listed, returned, receipt, locals, calls, chainVars,
                   timeout>>

\* The runs in which the blocking submission was answered by the node or broke.
AnsweredRuns(keypair, terms) ==
    {run \in CreateOrderRuns("Ask order creation failed", "create_ask_order", keypair, terms,
                             DefaultExpiryBlocks) :
        \E i \in 1..Len(run.log) :
            run.log[i].fn = "submit_extrinsic" /\ run.log[i].res # "unincluded"}

\* The node answers and create_ask_order runs to its end.
NodeAnswers ==
    /\ Waiting
    /\ \E run \in AnsweredRuns(arg.keypair, arg.terms) :
         WriteReturns("create_ask_order", arg, run)
    /\ UNCHANGED <<chainVars, waitVars>>

\* The caller takes the result and is free to make the next call.
CallerContinues ==
    /\ op # "idle"
    /\ outcome # NoOutcome
    /\ op' = "idle"
    /\ arg' = NoArg
    /\ outcome' = NoOutcome
    /\ listed' = <<>>
    /\ returned' = NoValue
    /\ receipt' = NoReceipt
    /\ locals' = NoLocals
    /\ calls' = <<>>
    /\ UNCHANGED <<chainVars, waitVars>>

ClientIdle ==
    /\ op = "idle"
    /\ arg = NoArg
    /\ outcome = NoOutcome
    /\ listed = <<>>
    /\ returned = NoValue
    /\ receipt = NoReceipt
    /\ locals = NoLocals
    /\ calls = <<>>
    /\ timeout = DefaultTimeout
    /\ waited = 0

InitRead ==
    /\ askOrders \in SeqsUpTo(RawOrders, MaxEntries)
    /\ bidOrders \in SeqsUpTo(RawOrders, MaxEntries)
    /\ deals \in SeqsUpTo(RawDeals, MaxEntries)
    /\ Len(askOrders) + Len(bidOrders) + Len(deals) <= MaxEntries
    /\ sysAccount = NoAccount
    /\ ClientIdle

NextRead == GetAskOrders \/ GetBidOrders \/ GetCreditDeals \/ CallerContinues

SpecRead == InitRead /\ [][NextRead]_vars

\* The order listings alone, over the two order maps.
InitOrders ==
    /\ askOrders \in SeqsUpTo(RawOrders, MaxEntries)
    /\ bidOrders \in SeqsUpTo(RawOrders, MaxEntries)
    /\ Len(askOrders) + Len(bidOrders) <= MaxEntries
    /\ deals = <<>>
    /\ sysAccount = NoAccount
    /\ ClientIdle

NextOrders == GetAskOrders \/ GetBidOrders \/ CallerContinues

SpecOrders == InitOrders /\ [][NextOrders]_vars

\* The deal listing alone.
InitDeals ==
    /\ askOrders = <<>>
    /\ bidOrders = <<>>
    /\ deals \in SeqsUpTo(RawDeals, MaxEntries)
    /\ sysAccount = NoAccount
    /\ ClientIdle

NextDeals == GetCreditDeals \/ CallerContinues

SpecDeals == InitDeals /\ [][NextDeals]_vars

InitWrite ==
    /\ askOrders = <<>>
    /\ bidOrders = <<>>
    /\ deals = <<>>
    /\ sysAccount \in AccountData \cup {NoAccount}
    /\ ClientIdle

NextWrite ==
    CreateAskOrder \/ CreateBidOrder \/ AcceptOffer \/ RepayLoan \/ Transfer \/ CallerContinues

SpecWrite == InitWrite /\ [][NextWrite]_vars

\* The bulk balance lookup; what the node holds is an input of every lookup.
InitBalances ==
    /\ askOrders = <<>>
    /\ bidOrders = <<>>
    /\ deals = <<>>
    /\ sysAccount \in AccountData \cup {NoAccount}
    /\ ClientIdle

NextBalances == GetBalance \/ GetBalancesBulk \/ GetAccountInfo \/ CallerContinues

SpecBalances == InitBalances /\ [][NextBalances]_vars

\* The account manager; it touches no chain state.
InitAccount ==
    /\ askOrders = <<>>
    /\ bidOrders = <<>>
    /\ deals = <<>>
    /\ sysAccount = NoAccount
    /\ ClientIdle

NextAccount ==
    \/ ValidateAddressCall
    \/ GenerateMnemonic
    \/ CreateFromMnemonic
    \/ CreateFromPrivateKey
    \/ CreateNewAccount
    \/ CreateAccount
    \/ CallerContinues

SpecAccount == InitAccount /\ [][NextAccount]_vars

\* The amount codec.
InitCodec ==
    /\ askOrders = <<>>
    /\ bidOrders = <<>>
    /\ deals = <<>>
    /\ sysAccount = NoAccount
    /\ ClientIdle

NextCodec == ToRawAmountCall \/ InterestRateToWire \/ CallerContinues

SpecCodec == InitCodec /\ [][NextCodec]_vars

\* The marketplace with the chain's reaction to the writes.
InitMarket ==
    /\ askOrders = <<>>
    /\ bidOrders = <<>>
    /\ deals = <<ScenarioDeal>>
    /\ sysAccount = NoAccount
    /\ ClientIdle

NextMarket ==
    \/ CreateAskOrderStored
    \/ RepayLoanApplied
    \/ GetAskOrders
    \/ GetCreditDeals
    \/ CallerContinues

SpecMarket == InitMarket /\ [][NextMarket]_vars

\* Every read operation, beside a write the chain reacts to.
InitObserve ==
    /\ askOrders = <<>>
    /\ bidOrders = <<>>
    /\ deals = <<ScenarioDeal>>
    /\ sysAccount \in AccountData \cup {NoAccount}
    /\ ClientIdle

NextObserve ==
    \/ GetAskOrders
    \/ GetBidOrders
    \/ GetCreditDeals
    \/ GetBalance
    \/ GetBalancesBulk
    \/ GetAccountInfo
    \/ RepayLoanApplied
    \/ CallerContinues

SpecObserve == InitObserve /\ [][NextObserve]_vars

\* A client constructed with a timeout, making calls that wait for inclusion.
InitWait ==
    /\ askOrders = <<>>
    /\ bidOrders = <<>>
    /\ deals = <<>>
    /\ sysAccount = NoAccount
    /\ op = "idle"
    /\ arg = NoArg
    /\ outcome = NoOutcome
    /\ listed = <<>>
    /\ returned = NoValue
    /\ receipt = NoReceipt
    /\ locals = NoLocals
    /\ calls = <<>>
    /\ timeout \in Timeouts
    /\ waited = 0

NextWait == CreateAskOrderWaits \/ WaitGoesOn \/ NodeAnswers \/ CallerContinues

SpecWait == InitWait /\ [][NextWait]_vars

\* The round trip of the codec on floats.
InitRoundTrip ==
    /\ askOrders = <<>>
    /\ bidOrders = <<>>
    /\ deals = <<>>
    /\ sysAccount = NoAccount
    /\ ClientIdle

NextRoundTrip == FormatOfRawAmount \/ CallerContinues

SpecRoundTrip == InitRoundTrip /\ [][NextRoundTrip]_vars

(***************************************************************************)
(* Vocabulary of the properties.                                           *)
(***************************************************************************)
\* The positions of the calls of method fn made by the pending operation.
CallsOf(fn) == {i \in 1..Len(calls) : calls[i].fn = fn}

Raised(exc) == outcome.kind = "raise" /\ outcome.exc = exc

\* The enumeration call of the pending listing ended as r.
EnumerationEnded(r) == Len(calls) = 2 /\ calls[2].fn = "query_map" /\ calls[2].res = r

ListingOps == {"get_ask_orders", "get_bid_orders", "get_credit_deals"}

WriteOps == {"create_ask_order", "create_bid_order", "accept_offer", "repay_loan", "transfer"}

\* The storage map the pending listing enumerates.
StorageRead ==
    IF op = "get_ask_orders" THEN askOrders
    ELSE IF op = "get_bid_orders" THEN bidOrders
    ELSE deals

\* A raw order entry every field of which is present and whose status is a status.
WellFormedOrder(value) == value.missing = {} /\ value.status \in OrderStatusValues

\* The number of orders of the returned list that carry the id of entry i.
TimesOrderListed(i) == Cardinality({j \in 1..Len(listed) : listed[j].order_id = Str(i)})

\* The number of deals of the returned list that carry the id of entry i.
TimesDealListed(i) == Cardinality({j \in 1..Len(listed) : listed[j].deal_id = Str(i)})

(***************************************************************************)
(* C1.  transfer to a valid destination, with the sender's available       *)
(* balance below amount + fee estimate, raises InsufficientBalanceError,   *)
(* and nothing is signed or submitted: the only call composed is the one   *)
(* the fee estimate composed for get_payment_info.                         *)
(***************************************************************************)
C1_InsufficientBalanceGate ==
    (/\ op = "transfer"
     /\ Ss58Decodes(arg.to_address)
     /\ locals.known
     /\ locals.balance < arg.amount + locals.fee_estimate)
        => /\ Raised("InsufficientBalanceError")
           /\ CallsOf("create_signed_extrinsic") = {}
           /\ CallsOf("submit_extrinsic") = {}
           /\ Cardinality(CallsOf("compose_call")) <= 1
           /\ receipt = NoReceipt

C1_Witness ==
    /\ op = "transfer"
    /\ Ss58Decodes(arg.to_address)
    /\ locals.known
    /\ locals.balance = 2
    /\ arg.amount = 2
    /\ locals.fee_estimate = 1
    /\ Raised("InsufficientBalanceError")

(***************************************************************************)
(* C2.  get_ask_orders without filters, the enumeration having answered,   *)
(* returns exactly the well-formed entries and does not raise, whatever    *)
(* malformed entries the storage map holds.                                *)
(***************************************************************************)
C2_PartialFailureTolerance ==
    (/\ op = "get_ask_orders"
     /\ EnumerationEnded("ok")
     /\ arg.address = None
     /\ arg.status = None)
        => /\ outcome.kind = "return"
           /\ Len(listed) =
                  Cardinality({i \in 1..Len(askOrders) : WellFormedOrder(askOrders[i])})
           /\ \A i \in 1..Len(askOrders) :
                  TimesOrderListed(i) = IF WellFormedOrder(askOrders[i]) THEN 1 ELSE 0

(***************************************************************************)
(* C3.  A listing whose storage enumeration call fails raises NetworkError *)
(* and returns no list.                                                    *)
(***************************************************************************)
C3_EnumerationFailureIsNetworkError ==
    (/\ op \in ListingOps
     /\ \E f \in RpcFailures : EnumerationEnded(f))
        => Raised("NetworkError")

(***************************************************************************)
(* C4.  get_ask_orders(status=S) returns only orders whose status is S.    *)
(***************************************************************************)
C4_StatusFilter ==
    (/\ op = "get_ask_orders"
     /\ outcome.kind = "return"
     /\ arg.status \in OrderStatusValues)
        => /\ \A j \in 1..Len(listed) : listed[j].status = arg.status
           /\ \A j \in 1..Len(listed) :
                  \E i \in 1..Len(askOrders) :
                      listed[j].order_id = Str(i) /\ askOrders[i].status = arg.status

C4_Witness ==
    /\ op = "get_ask_orders"
    /\ outcome.kind = "return"
    /\ arg.status = "filled"
    /\ arg.address = None
    /\ Len(askOrders) = 2
    /\ askOrders[1].status = "active"
    /\ askOrders[2].status = "filled"
    /\ Len(listed) = 1
    /\ listed[1].order_id = Str(2)

(***************************************************************************)
(* C5.  The order listings with an address filter.  An order entry matches *)
(* when its lender (borrower) is the filter's address and it passes the    *)
(* status filter.  As claimed: for any supplied string, the list returned  *)
(* holds every matching order exactly once and nothing else.  As amended:  *)
(* the same for any supplied non-empty string.                             *)
(***************************************************************************)
OrderMatches(value) ==
    /\ value.party = arg.address
    /\ arg.status # None => value.status = arg.status

ExactlyTheMatchingOrders ==
    /\ \A i \in 1..Len(StorageRead) :
           TimesOrderListed(i) = IF OrderMatches(StorageRead[i]) THEN 1 ELSE 0
    /\ Len(listed) = Cardinality({i \in 1..Len(StorageRead) : OrderMatches(StorageRead[i])})
    /\ \A j \in 1..Len(listed) : listed[j].address = arg.address

\* C5 as claimed: with any supplied string as the address filter, a listing that
\* returns holds exactly the orders of that address that pass the status filter.
C5_AddressFilterAnyString ==
    (/\ op \in {"get_ask_orders", "get_bid_orders"}
     /\ outcome.kind = "return"
     /\ EnumerationEnded("ok")
     /\ arg.address # None)
        => ExactlyTheMatchingOrders

\* C5 as amended: with any supplied non-empty string as the address filter, a listing
\* that returns holds exactly the orders of that address that pass the status filter.
C5_AddressFilterNonEmpty ==
    (/\ op \in {"get_ask_orders", "get_bid_orders"}
     /\ outcome.kind = "return"
     /\ EnumerationEnded("ok")
     /\ arg.address # None
     /\ arg.address # "")
        => ExactlyTheMatchingOrders

C5_Witness ==
    /\ op = "get_bid_orders"
    /\ outcome.kind = "return"
    /\ arg.address = "5Bob"
    /\ arg.status = "active"
    /\ Len(bidOrders) = 2
    /\ bidOrders[1].party = "5Bob"
    /\ bidOrders[1].status = "expired"
    /\ bidOrders[2].party = "5Bob"
    /\ bidOrders[2].status = "active"
    /\ Len(listed) = 1

(***************************************************************************)
(* C6.  get_credit_deals(participant_address=A), A an address: a deal is   *)
(* in the list returned if and only if A is its lender or its borrower and *)
(* it passes the status filter.                                            *)
(***************************************************************************)
DealMatches(value) ==
    /\ value.lender = arg.address \/ value.borrower = arg.address
    /\ arg.status # None => value.status = arg.status

C7_InvalidDestinationFirst ==
    (op = "transfer" /\ ~Ss58Decodes(arg.to_address))
        => /\ Raised("InvalidAddressError")
           /\ calls = <<>>
           /\ ~locals.known
           /\ receipt = NoReceipt

C7_Witness ==
    /\ op = "transfer"
    /\ arg.to_address = "invalid_address"
    /\ arg.keypair.address = "5Alice"
    /\ arg.amount = 1
    /\ sysAccount.exists
    /\ Raised("InvalidAddressError")

(***************************************************************************)
(* C8.  create_ask_order and create_bid_order with terms that violate      *)
(* principal > 0, interest_rate >= 0, duration_days > 0 or, collateral     *)
(* being required, a collateral amount that is present and > 0, are        *)
(* rejected and no call is composed, signed or submitted.                  *)
(***************************************************************************)
ValidTerms(terms) ==
    /\ terms.principal > 0
    /\ terms.interest_rate >= 0
    /\ terms.duration_days > 0
    /\ terms.collateral_required => (terms.collateral_given /\ terms.collateral_amount > 0)

\* C8: an order creation with invalid terms raises and makes no call on the node.
C8_InvalidTermsRejected ==
    (/\ op \in {"create_ask_order", "create_bid_order"}
     /\ ~ValidTerms(arg.terms))
        => /\ outcome.kind = "raise"
           /\ calls = <<>>
           /\ receipt = NoReceipt

(***************************************************************************)
(* C9.  repay_loan with amount <= 0 is rejected and no repay_loan call is  *)
(* composed or submitted.                                                  *)
(***************************************************************************)
C9_NonPositiveRepaymentRejected ==
    (op = "repay_loan" /\ arg.amount <= 0)
        => /\ outcome.kind = "raise"
           /\ CallsOf("compose_call") = {}
           /\ CallsOf("submit_extrinsic") = {}

(***************************************************************************)
(* C10.  Every write operation whose submission the chain rejects (the     *)
(* result is no success) or whose submit call ends with the node's error   *)
(* raises TransactionError with the reported message in its message, and   *)
(* returns no receipt.                                                     *)
(***************************************************************************)
\* The pending operation's last call was the submission, and it ended as r.
SubmissionEnded(r) ==
    /\ calls # <<>>
    /\ calls[Len(calls)].fn = "submit_extrinsic"
    /\ calls[Len(calls)].res = r

ReportedMessage == calls[Len(calls)].detail[1]

\* C10: a write whose submission was rejected or ended with the node's error raises
\* TransactionError carrying the reported message, and returns no receipt.
C10_SubmissionFailureIsTransactionError ==
    (/\ op \in WriteOps
     /\ SubmissionEnded("failed") \/ SubmissionEnded("SubstrateRequestException"))
        => /\ Raised("TransactionError")
           /\ \E k \in 1..Len(outcome.msg) : outcome.msg[k] = ReportedMessage
           /\ receipt = NoReceipt

C10_Witness ==
    /\ op = "repay_loan"
    /\ SubmissionEnded("failed")
    /\ ReportedMessage = "InsufficientFunds"
    /\ Raised("TransactionError")
    /\ outcome.msg = <<"Loan repayment failed", "InsufficientFunds">>

(***************************************************************************)
(* C11.  A write operation whose compose, sign or submit call cannot reach *)
(* the node raises NetworkError.                                           *)
(***************************************************************************)
\* The last call of the pending write is a call of its try block that ended as f.
\* (In transfer the first compose_call is the fee estimate's.)
WriteCallEnded(f) ==
    /\ calls # <<>>
    /\ calls[Len(calls)].res = f
    /\ calls[Len(calls)].fn \in {"compose_call", "create_signed_extrinsic", "submit_extrinsic"}
    /\ (op = "transfer" /\ calls[Len(calls)].fn = "compose_call")
           => Cardinality(CallsOf("compose_call")) = 2

\* C11: a write whose compose, sign or submit call fails for want of a connection to
\* the node raises NetworkError (no TransactionError, no exception foreign to the SDK).
C11_NetworkFailureIsNetworkError ==
    (op \in WriteOps /\ WriteCallEnded("ConnectionError")) => Raised("NetworkError")

(***************************************************************************)
(* C12.  No write operation submits its signed extrinsic more than once,   *)
(* whatever the outcome; a submission that did not succeed is the last     *)
(* call the operation makes.                                               *)
(***************************************************************************)
C12_SubmittedAtMostOnce ==
    op \in WriteOps
        => /\ Cardinality(CallsOf("submit_extrinsic")) <= 1
           /\ Cardinality(CallsOf("create_signed_extrinsic")) <= 1
           /\ \A i \in CallsOf("submit_extrinsic") :
                  calls[i].res # "success" => i = Len(calls)

C12_Witness ==
    /\ op = "create_bid_order"
    /\ SubmissionEnded("SubstrateRequestException")
    /\ Raised("TransactionError")
    /\ Cardinality(CallsOf("submit_extrinsic")) = 1

(***************************************************************************)
(* C13.  accept_offer composes the call of the order's type and no other:  *)
(* Credit.accept_ask_order for ASK, Credit.accept_bid_order for BID, with  *)
(* the order_id it was given.                                              *)
(***************************************************************************)
C13_AcceptDispatch ==
    op = "accept_offer"
        => /\ Cardinality(CallsOf("compose_call")) <= 1
           /\ \A i \in CallsOf("compose_call") :
                  /\ calls[i].detail[1] = "Credit"
                  /\ arg.order_type = "ask" => calls[i].detail[2] = "accept_ask_order"
                  /\ arg.order_type = "bid" => calls[i].detail[2] = "accept_bid_order"
                  /\ calls[i].detail[3] = [order_id |-> arg.order_id]

C13_Witness ==
    /\ op = "accept_offer"
    /\ arg.order_type = "bid"
    /\ arg.order_id = Str(2)
    /\ outcome.kind = "return"
    /\ calls[1] = Call("compose_call",
                       <<"Credit", "accept_bid_order", [order_id |-> Str(2)]>>, "ok")

(***************************************************************************)
(* C14.  A write operation returns a receipt only after its one submission *)
(* returned a successful result; the receipt's hash, block hash and block  *)
(* number are that result's and its status is success.  No receipt exists  *)
(* for a call that was not submitted or whose submission failed.           *)
(***************************************************************************)
C14_ReceiptOnlyAfterInclusion ==
    op \in WriteOps
        => /\ outcome.kind = "return" => receipt # NoReceipt
           /\ receipt # NoReceipt
                  => /\ outcome.kind = "return"
                     /\ Cardinality(CallsOf("submit_extrinsic")) = 1
                     /\ \A i \in CallsOf("submit_extrinsic") :
                            /\ calls[i].res = "success"
                            /\ receipt.status = "success"
                            /\ receipt.tx_hash = <<"tx", calls[i].detail[1]>>
                            /\ receipt.block_hash = <<"block", calls[i].detail[1]>>
                            /\ receipt.block_number = calls[i].detail[1]

C14_Witness ==
    /\ op = "create_ask_order"
    /\ outcome.kind = "return"
    /\ calls[3] = Call("submit_extrinsic", <<8>>, "success")
    /\ receipt.status = "success"
    /\ receipt.block_number = 8

(***************************************************************************)
(* C15.  The fee of the receipt of a write operation is the fee the node   *)
(* reported when queried after the submission, never the pre-submission    *)
(* estimate or a default.                                                  *)
(***************************************************************************)
\* C15: a receipt's fee is the partial fee a get_payment_info call made after the
\* submission reported.
C15_FeeIsQueriedAfterSubmission ==
    (op \in WriteOps /\ receipt # NoReceipt)
        => \E i \in CallsOf("get_payment_info") :
               /\ \E j \in CallsOf("submit_extrinsic") : j < i
               /\ calls[i].res = "ok"
               /\ calls[i].detail[1] # 0
               /\ receipt.fee = FromRaw(calls[i].detail[1])

(***************************************************************************)
(* C16.  get_balances_bulk never raises; the mapping it returns has an     *)
(* entry for every input address and no other; it looks every address up,  *)
(* in order, whatever the earlier lookups did; an address's entry is what  *)
(* get_balance returned for it, or the all-zero placeholder when           *)
(* get_balance raised (for an address given twice, its last lookup).       *)
(***************************************************************************)
\* The position of the last lookup of address a.
LastLookup(a) ==
    CHOOSE k \in 1..Len(locals.lookups) :
        /\ locals.lookups[k].address = a
        /\ \A j \in (k + 1)..Len(locals.lookups) : locals.lookups[j].address # a

\* C16: the bulk lookup returns, with one entry per input address holding that
\* address's balance or, its lookup having failed, the zero placeholder.
C16_BulkIsolation ==
    op = "get_balances_bulk"
        => /\ outcome.kind = "return"
           /\ returned[1] = "dict"
           /\ DOMAIN returned[2] = {arg.addresses[i] : i \in 1..Len(arg.addresses)}
           /\ Len(locals.lookups) = Len(arg.addresses)
           /\ \A k \in 1..Len(arg.addresses) : locals.lookups[k].address = arg.addresses[k]
           /\ \A a \in DOMAIN returned[2] :
                  returned[2][a] =
                      IF locals.lookups[LastLookup(a)].out.kind = "return"
                      THEN locals.lookups[LastLookup(a)].balance
                      ELSE ZeroBalance

C16_Witness ==
    /\ op = "get_balances_bulk"
    /\ arg.addresses = <<"invalid_address", "5Bob">>
    /\ locals.lookups[1].out.exc = "InvalidAddressError"
    /\ locals.lookups[2].out.kind = "return"
    /\ returned[2]["invalid_address"] = ZeroBalance
    /\ returned[2]["5Bob"].balance = 2
    /\ returned[2]["5Bob"].total = 7

(***************************************************************************)
(* C17.  validate_address(address, ss58_format) never raises; it returns   *)
(* false for a string the library does not decode under the format and     *)
(* true only when the library built a keypair whose address is the string. *)
(***************************************************************************)
C17_ValidateAddressTotal ==
    op = "validate_address"
        => /\ outcome.kind = "return"
           /\ returned[1] = "bool"
           /\ ~(Ss58WellFormed(arg.address) /\ Ss58FormatOf(arg.address) = arg.ss58_format)
                  => returned[2] = FALSE
           /\ calls[1].res # "ok" => returned[2] = FALSE
           /\ returned[2] = TRUE
                  => /\ calls[1].res = "ok"
                     /\ Ss58WellFormed(arg.address)
                     /\ Ss58Encode(arg.address, arg.ss58_format) = arg.address

C17_Witness ==
    /\ op = "validate_address"
    /\ arg.address = "invalid_address"
    /\ arg.ss58_format = 42
    /\ calls[1].res = "TypeError"
    /\ outcome.kind = "return"
    /\ returned = <<"bool", FALSE>>

(***************************************************************************)
(* C18.  generate_mnemonic(words_count) calls the library exactly when     *)
(* words_count is 12, 15, 18, 21 or 24 and returns the library's phrase,   *)
(* of words_count words; for any other count it raises KeypairError and    *)
(* the library is not called.  create_new_account and create_account       *)
(* inherit the gate.                                                       *)
(***************************************************************************)
C18_WordCountGate ==
    op \in {"generate_mnemonic", "create_new_account", "create_account"}
        => IF arg.words_count \in {12, 15, 18, 21, 24}
           THEN /\ Cardinality(CallsOf("Keypair.generate_mnemonic")) = 1
                /\ calls[1].fn = "Keypair.generate_mnemonic"
                /\ calls[1].detail[1] = arg.words_count
                /\ ~Raised("KeypairError")
                /\ op = "generate_mnemonic"
                       => /\ outcome.kind = "return"
                          /\ returned = <<"str", calls[1].detail[2]>>
                          /\ Len(returned[2]) = arg.words_count
                /\ op # "generate_mnemonic"
                       => /\ outcome.kind = "return"
                          /\ returned[2].mnemonic = calls[1].detail[2]
                          /\ Len(returned[2].mnemonic) = arg.words_count
           ELSE /\ Raised("KeypairError")
                /\ calls = <<>>
                /\ returned = NoValue

C18_Witness ==
    /\ op = "create_account"
    /\ arg.words_count = 13
    /\ Raised("KeypairError")
    /\ calls = <<>>

(***************************************************************************)
(* C19.  create_from_mnemonic and create_from_private_key raise nothing    *)
(* but KeypairError, and raise it whenever the library's derivation fails; *)
(* when it succeeds they return a keypair with the library's private key,  *)
(* public key and address, whose mnemonic is the input phrase, or empty    *)
(* when derived from a private key.                                        *)
(***************************************************************************)
C19_DerivationWrapped ==
    op \in {"create_from_mnemonic", "create_from_private_key"}
        => /\ Len(calls) = 1
           /\ outcome.kind = "raise" => outcome.exc = "KeypairError"
           /\ calls[1].res # "ok" => Raised("KeypairError") /\ returned = NoValue
           /\ calls[1].res = "ok"
                  => /\ outcome.kind = "return"
                     /\ returned[1] = "keypair"
                     /\ returned[2].private_key = calls[1].detail[3].private_key
                     /\ returned[2].public_key = calls[1].detail[3].public_key
                     /\ returned[2].address = calls[1].detail[3].ss58_address
                     /\ op = "create_from_mnemonic" => returned[2].mnemonic = arg.mnemonic
                     /\ op = "create_from_private_key" => returned[2].mnemonic = <<>>

C19_Witness ==
    /\ op = "create_from_mnemonic"
    /\ arg.mnemonic = Phrase(12, "word")
    /\ calls[1].res = "ValueError"
    /\ Raised("KeypairError")

(***************************************************************************)
(* C20.  The amount encoding rounds to the nearest integer: the result of  *)
(* to_raw_amount(amount, decimals) is an integer nearest to                *)
(* amount * 10^decimals and the basis points of a rate an integer nearest  *)
(* to rate * 100; 1000.0 encodes as 1000 * 10^decimals and 5.0 percent as  *)
(* 500 basis points.                                                       *)
(***************************************************************************)
Abs(x) == IF x < 0 THEN -x ELSE x

\* v is an integer nearest to (num / den) * factor
NearestTo(v, num, den, factor) == 2 * Abs(v * den - num * factor) <= den

\* C20: the encoded amount and the encoded rate are nearest integers of the scaled
\* decimal.
C20_EncodingRoundsToNearest ==
    op \in {"to_raw_amount", "interest_rate_to_wire"}
        => /\ NearestTo(returned[2], arg.amount.num, arg.amount.den, Pow10(arg.decimals))
           /\ (op = "to_raw_amount" /\ arg.amount = [num |-> 1000, den |-> 1])
                  => returned[2] = 1000 * Pow10(arg.decimals)
           /\ (op = "interest_rate_to_wire" /\ arg.amount = [num |-> 5, den |-> 1])
                  => returned[2] = 500

(***************************************************************************)
(* C21.  A negative amount (principal, repayment, transfer amount) is      *)
(* refused with InvalidAmountError and never encoded into a call.          *)
(***************************************************************************)
\* The pending write was given a negative amount and nothing else stops it before
\* the amount is encoded.
NegativeAmountGiven ==
    /\ op \in WriteOps
    /\ arg.keypair.keyOk
    /\ \/ op \in {"create_ask_order", "create_bid_order"} /\ arg.terms.principal < 0
       \/ op = "repay_loan" /\ arg.amount < 0
       \/ /\ op = "transfer"
          /\ arg.amount < 0
          /\ Ss58Decodes(arg.to_address)
          /\ Ss58Decodes(arg.keypair.address)

\* C21: a write given a negative amount raises InvalidAmountError and composes no
\* call.
C21_NegativeAmountRefused ==
    NegativeAmountGiven
        => /\ Raised("InvalidAmountError")
           /\ CallsOf("compose_call") = {}
           /\ CallsOf("submit_extrinsic") = {}

(***************************************************************************)
(* C28.  The gate of transfer.  As claimed: an extrinsic is submitted if   *)
(* and only if the destination is an address and the balance is at least   *)
(* amount + fee estimate.  As amended: only if; and if, provided the key   *)
(* converts and the call is composed and signed.  In both: it is submitted *)
(* once, after the balance query and the fee estimate, and a fee estimate  *)
(* that fails is replaced by the fallback without ending the transfer.     *)
(***************************************************************************)
\* The gate of the pending transfer is open.
GateOpen ==
    /\ Ss58Decodes(arg.to_address)
    /\ locals.known
    /\ locals.balance >= arg.amount + locals.fee_estimate

\* What holds of every submission of the pending transfer.
SubmittedOnceInOrder ==
    \A s \in CallsOf("submit_extrinsic") :
        /\ CallsOf("submit_extrinsic") = {s}
        /\ calls[1].fn = "query"
        /\ calls[1].res = "ok"
        /\ calls[2].fn = "compose_call"
        /\ calls[2].detail[2] = "transfer_keep_alive"
        /\ s > 3
        /\ calls[s - 1].fn = "create_signed_extrinsic"

\* The fee estimate of the pending transfer failed.
FeeEstimateFailed ==
    /\ Len(calls) >= 2
    /\ \/ calls[2].fn = "compose_call" /\ calls[2].res \in RpcFailures
       \/ Len(calls) >= 3 /\ calls[3].fn = "get_payment_info" /\ calls[3].res \in RpcFailures

FallbackReplacesFailedEstimate ==
    FeeEstimateFailed => locals.known /\ locals.fee_estimate = FallbackFee

\* A call of the try block before the submission failed.
FailedBeforeSubmission ==
    \E i \in 3..Len(calls) :
        /\ calls[i].fn \in {"compose_call", "create_signed_extrinsic"}
        /\ calls[i].res \in RpcFailures

C22_AmountRoundTrip ==
    op = "format_amount" => returned = <<"float", arg.amount>>

(***************************************************************************)
(* Creating an order and listing it.                                       *)
(***************************************************************************)
\* The decoded terms are the submitted ones.  The decoder always gives a
\* collateral amount (a float), so terms without one (None) differ from it.
SameTerms(decoded, terms) ==
    /\ decoded.principal = terms.principal
    /\ decoded.interest_rate = terms.interest_rate
    /\ decoded.duration_days = terms.duration_days
    /\ decoded.collateral_required = terms.collateral_required
    /\ terms.collateral_given
    /\ decoded.collateral_amount = terms.collateral_amount

\* What get_ask_orders(lender_address=the signer, status=Active) comes to.
ActiveOrdersOfSigner == ScanOrders(askOrders, 1, <<>>, arg.keypair.address, "active")

\* The lender's first ask order has just been included.
FirstAskOrderIncluded ==
    /\ op = "create_ask_order"
    /\ Included(calls)
    /\ Len(askOrders) = 1

\* C23: once the chain has included a lender's create_ask_order and keeps its
\* call parameters as an active ask order, listing the lender's active ask
\* orders gives exactly one order, and its decoded terms (principal, interest
\* rate, duration, collateral flag, collateral amount) are the submitted ones.
C23_CreateThenList ==
    FirstAskOrderIncluded =>
        /\ ActiveOrdersOfSigner.exc = None
        /\ Len(ActiveOrdersOfSigner.items) = 1
        /\ SameTerms(ActiveOrdersOfSigner.items[1].terms, arg.terms)

(***************************************************************************)
(* Repayments and the deal listing.                                        *)
(***************************************************************************)
\* C24: whatever repay_loan requests the client has made, every deal that
\* get_credit_deals returns has repaid_amount <= amount, and the chain's deal
\* keeps its repaid amount within its amount.
C24_RepaidWithinAmount ==
    /\ \A i \in 1..Len(deals) : deals[i].repaid_amount <= deals[i].amount
    /\ (op = "get_credit_deals" /\ outcome.kind = "return") =>
           \A j \in 1..Len(listed) : listed[j].repaid_amount <= listed[j].amount

\* A deal repaid in full, by more than one repayment, has been listed.
C24_Witness ==
    /\ op = "get_credit_deals"
    /\ outcome.kind = "return"
    /\ Len(listed) = 1
    /\ listed[1].repaid_amount = listed[1].amount
    /\ listed[1].amount > MaxAmount

(***************************************************************************)
(* Reads observe, writes request.                                          *)
(***************************************************************************)
ReadOps ==
    {"get_ask_orders", "get_bid_orders", "get_credit_deals", "get_balance",
     "get_balances_bulk", "get_account_info"}

\* The calls by which a chain transition is requested.
RequestCalls == {"compose_call", "create_signed_extrinsic", "submit_extrinsic"}

\* The deals as the decoder gives them, in storage order.
DealsDecoded == [j \in 1..Len(deals) |-> DealFromJson(j, deals[j])]

\* A step in which the caller makes a read operation.
ReadStep == op = "idle" /\ op' \in ReadOps

\* C26: a read operation composes, signs and submits nothing and leaves the
\* chain's orders, deals and balances as they are; the client keeps no copy of
\* the deals: an unfiltered listing gives the deals the chain holds at the call.
C26_ReadsOnlyObserve ==
    [][ReadStep =>
          /\ UNCHANGED chainVars
          /\ \A i \in 1..Len(calls') : calls'[i].fn \notin RequestCalls
          /\ (/\ op' = "get_credit_deals"
              /\ outcome'.kind = "return"
              /\ calls'[Len(calls')].res = "ok"
              /\ ~TruthyStr(arg'.address)
              /\ ~TruthyEnum(arg'.status)) => listed' = DealsDecoded]_vars

\* A listing made after a repayment changed the deal shows the deal part repaid.
C26_Witness ==
    /\ op = "get_credit_deals"
    /\ outcome.kind = "return"
    /\ CallsOf("query_map") # {}
    /\ Len(listed) = 1
    /\ listed[1].repaid_amount > 0
    /\ listed[1].repaid_amount < listed[1].amount

(***************************************************************************)
(* The wait for inclusion and the timeout.                                 *)
(***************************************************************************)
\* C27: an operation that waits for inclusion is blocked no longer than the
\* timeout the client was constructed with: while it waits for the node, the
\* time it has waited is within the timeout.
C27_WaitWithinTimeout == Waiting => waited <= timeout

====
